---- MODULE Spec2Model ----
(***************************************************************************)
(* Correlated colour temperature computations of colour/temperature/cct.py *)
(* as a state machine: a caller invokes one public operation at a time,    *)
(* the operation runs to its return value or to the exception it raises,   *)
(* and the caller then takes the result.                                   *)
(*                                                                         *)
(* Floating point quantities are fixed point integers:                     *)
(*   uv chromaticities and distances   in units of 1/UVScale,              *)
(*   xy chromaticities                 in units of 1/XYScale,              *)
(*   temperatures                      in units of 1/TScale kelvin,        *)
(*   unit vectors, blend fractions and                                     *)
(*   interpolated reciprocal megakelvins in units of 1/DScale.             *)
(***************************************************************************)
EXTENDS Integers, Sequences, FiniteSets, TLC

VARIABLES
    lines,       \* ROBERTSON_ISOTEMPERATURE_LINES, the module level list
    registries,  \* the four module level method dictionaries
    pc,          \* "idle", the running function's position, or "done"
    op,          \* the public operation the caller invoked
    args,        \* the arguments the caller gave
    invoked,     \* the implementations entered so far, with their arguments
    loc,         \* the local variables of the running function
    ret,         \* the outcome: nothing yet, a value, or a raised exception
    origin       \* the uv of a forward call whose result is being inverted

vars == <<lines, registries, pc, op, args, invoked, loc, ret, origin>>

None == "None"

UVScale == 100000
XYScale == 10000
TScale == 100
DScale == 10000

Abs(a) == IF a < 0 THEN -a ELSE a

Max(a, b) == IF a >= b THEN a ELSE b

Min(a, b) == IF a <= b THEN a ELSE b

Sign(a) == IF a < 0 THEN -1 ELSE 1

\* a / b rounded to the nearest integer, for b > 0.
RDiv(a, b) == (2 * a + b) \div (2 * b)

\* a / b truncated towards zero, for b > 0.
TDiv(a, b) == Sign(a) * (Abs(a) \div b)

\* The product of two fixed point numbers of scale s.
Mul(a, b, s) == RDiv(a * b, s)

RECURSIVE IsqrtIter(_, _)
IsqrtIter(n, x) ==
    LET y == (x + n \div x) \div 2
    IN  IF y >= x THEN x ELSE IsqrtIter(n, y)

\* math.sqrt on a fixed point radicand: the integer square root.
Isqrt(n) == IF n < 2 THEN n ELSE IsqrtIter(n, Min(n, 46340))

RECURSIVE LongDivIter(_, _, _, _)
LongDivIter(q, rem, d, k) ==
    IF k = 0 THEN q
    ELSE LongDivIter(q * 10 + (rem * 10) \div d, (rem * 10) % d, d, k - 1)

\* n * 10^k / d by long division, so that n * 10^k itself is never formed.
LongDiv(n, d, k) ==
    Sign(n) * Sign(d) *
        LongDivIter(Abs(n) \div Abs(d), Abs(n) % Abs(d), Abs(d), k)

\* Python's n / d for n >= 0 and d > 0, as a fraction of scale DScale: the
\* quotient rounded to the nearest representable value, as the float
\* quotient is.
TrueDiv(n, d) == (LongDiv(n, d, 5) + 5) \div 10

(***************************************************************************)
(* Module level constants.                                                 *)
(***************************************************************************)
CCT_MINIMAL == 1000

CCT_MAXIMAL == 100000

CCT_SAMPLES == 10

CCT_CALCULATION_ITERATIONS == 6

\* (r, u, v, t): r in reciprocal megakelvin, u and v times UVScale,
\* the slope t times UVScale.
ROBERTSON_ISOTEMPERATURE_LINES_DATA ==
    << <<0, 18006, 26352, -24341>>,
       <<10, 18066, 26589, -25479>>,
       <<20, 18133, 26846, -26876>>,
       <<30, 18208, 27119, -28539>>,
       <<40, 18293, 27407, -30470>>,
       <<50, 18388, 27709, -32675>>,
       <<60, 18494, 28021, -35156>>,
       <<70, 18611, 28342, -37915>>,
       <<80, 18740, 28668, -40955>>,
       <<90, 18880, 28997, -44278>>,
       <<100, 19032, 29326, -47888>>,
       <<125, 19462, 30141, -58204>>,
       <<150, 19962, 30921, -70471>>,
       <<175, 20525, 31647, -84901>>,
       <<200, 21142, 32312, -101820>>,
       <<225, 21807, 32909, -121680>>,
       <<250, 22511, 33439, -145120>>,
       <<275, 23247, 33904, -172980>>,
       <<300, 24010, 34308, -206370>>,
       <<325, 24792, 34655, -246810>>,
       <<350, 25591, 34951, -296410>>,
       <<375, 26400, 35200, -358140>>,
       <<400, 27218, 35407, -436330>>,
       <<425, 28039, 35577, -537620>>,
       <<450, 28863, 35714, -672620>>,
       <<475, 29685, 35823, -859550>>,
       <<500, 30505, 35907, -1132400>>,
       <<525, 31320, 35968, -1562800>>,
       <<550, 32129, 36011, -2332500>>,
       <<575, 32931, 36038, -4077000>>,
       <<600, 33724, 36051, -11645000>> >>

ROBERTSON_ISOTEMPERATURE_LINES_RUVT(x) ==
    [r |-> x[1], u |-> x[2], v |-> x[3], t |-> x[4]]

\* The list is 0-indexed in the source; index i of the source is i + 1 here.
ROBERTSON_ISOTEMPERATURE_LINES ==
    [k \in 1..Len(ROBERTSON_ISOTEMPERATURE_LINES_DATA) |->
        ROBERTSON_ISOTEMPERATURE_LINES_RUVT(ROBERTSON_ISOTEMPERATURE_LINES_DATA[k])]

UV_TO_CCT_METHODS ==
    ("Ohno 2013" :> "uv_to_CCT_ohno2013") @@
    ("Robertson 1968" :> "uv_to_CCT_robertson1968")

CCT_TO_UV_METHODS ==
    ("Ohno 2013" :> "CCT_to_uv_ohno2013") @@
    ("Robertson 1968" :> "CCT_to_uv_robertson1968")

XY_TO_CCT_METHODS ==
    ("McCamy 1992" :> "xy_to_CCT_mccamy1992") @@
    ("Hernandez 1999" :> "xy_to_CCT_hernandez1999")

CCT_TO_XY_METHODS ==
    ("Kang 2002" :> "CCT_to_xy_kang2002") @@
    ("CIE Illuminant D Series" :> "CCT_to_xy_illuminant_D")

\* dict.get(key): the value, or None when the key is missing.
Get(dict, key) == IF key \in DOMAIN dict THEN dict[key] ELSE None

\* The outcome of a call: nothing yet, a returned value, a raised exception.
NoOutcome == [kind |-> "none"]

Value(v) == [kind |-> "value", value |-> v]

Raise(e) == [kind |-> "raise", error |-> e]

\* raise ValueError("'Robertson (1968)' method is only valid for ...")
ObserverError ==
    [kind |-> "raise", error |-> "ValueError",
     message |-> "'Robertson (1968)' method is only valid for 'CIE 1931 2 Degree Standard Observer'!"]

CIE_2_1931 == [name |-> "CIE 1931 2 Degree Standard Observer"]

CIE_10_1964 == [name |-> "CIE 1964 10 Degree Standard Observer"]

\* No keyword arguments.
NoKwargs == [k \in {} |-> None]

(***************************************************************************)
(* Closed form approximations, CCT in units of 1/TScale kelvin.            *)
(***************************************************************************)
\* 1000 / CCT as a fixed point number of scale XYScale.
KiloReciprocal(CCT) == RDiv(1000 * XYScale * TScale, CCT)

Cube(w) == Mul(Mul(w, w, XYScale), w, XYScale)

Square(w) == Mul(w, w, XYScale)

\* The branches of x with the test of the upper range first.
KangXPolynomialUpperFirst(CCT) ==
    IF 4000 * TScale <= CCT /\ CCT <= 25000 * TScale THEN 2
    ELSE IF 1667 * TScale <= CCT /\ CCT <= 4000 * TScale THEN 1
    ELSE 0

\* Lines 765, 770, 775: the polynomial of x, 0 for the else branch.
KangXPolynomial(CCT) ==
    IF 1667 * TScale <= CCT /\ CCT <= 4000 * TScale THEN 1
    ELSE IF 4000 * TScale <= CCT /\ CCT <= 25000 * TScale THEN 2
    ELSE 0

\* The branches of y with open ranges: a breakpoint falls through them all.
KangYPolynomialOpenRanges(CCT) ==
    IF 1667 * TScale < CCT /\ CCT < 2222 * TScale THEN 1
    ELSE IF 2222 * TScale < CCT /\ CCT < 4000 * TScale THEN 2
    ELSE IF 4000 * TScale < CCT /\ CCT < 25000 * TScale THEN 3
    ELSE 0

\* Lines 779, 784, 789: the polynomial of y, 0 when no branch is taken.
KangYPolynomial(CCT) ==
    IF 1667 * TScale <= CCT /\ CCT <= 2222 * TScale THEN 1
    ELSE IF 2222 * TScale <= CCT /\ CCT <= 4000 * TScale THEN 2
    ELSE IF 4000 * TScale <= CCT /\ CCT <= 25000 * TScale THEN 3
    ELSE 0

CCT_to_xy_kang2002(CCT) ==
    LET w == KiloReciprocal(CCT)
        xpoly == KangXPolynomial(CCT)
        x == IF xpoly = 1
             THEN -Mul(2661, Cube(w), XYScale) - Mul(2344, Square(w), XYScale)
                  + Mul(8777, w, XYScale) + 1799
             ELSE -Mul(30258, Cube(w), XYScale) + Mul(21070, Square(w), XYScale)
                  + Mul(2226, w, XYScale) + 2404
        ypoly == KangYPolynomial(CCT)
        y == CASE ypoly = 1 ->
                    -Mul(11064, Cube(x), XYScale) - Mul(13481, Square(x), XYScale)
                    + Mul(21856, x, XYScale) - 2022
               [] ypoly = 2 ->
                    -Mul(9549, Cube(x), XYScale) - Mul(13742, Square(x), XYScale)
                    + Mul(20914, x, XYScale) - 1675
               [] ypoly = 3 ->
                    Mul(30818, Cube(x), XYScale) - Mul(58734, Square(x), XYScale)
                    + Mul(37511, x, XYScale) - 3700
    IN  IF xpoly = 0 THEN Raise("ValueError")
        ELSE IF ypoly = 0 THEN Raise("UnboundLocalError")
        ELSE [kind |-> "value", value |-> <<x, y>>,
              xpoly |-> xpoly, ypoly |-> ypoly]

\* The branches of x with 7000 K given to the second polynomial.
IlluminantDXPolynomialLate(CCT) ==
    IF 4000 * TScale <= CCT /\ CCT < 7000 * TScale THEN 1
    ELSE IF 7000 * TScale <= CCT /\ CCT <= 25000 * TScale THEN 2
    ELSE 0

\* Lines 824, 829, 834: the polynomial of x, 0 for the else branch.
IlluminantDXPolynomial(CCT) ==
    IF 4000 * TScale <= CCT /\ CCT <= 7000 * TScale THEN 1
    ELSE IF 7000 * TScale < CCT /\ CCT <= 25000 * TScale THEN 2
    ELSE 0

CCT_to_xy_illuminant_D(CCT) ==
    LET w == KiloReciprocal(CCT)
        xpoly == IlluminantDXPolynomial(CCT)
        x == IF xpoly = 1
             THEN -Mul(46070, Cube(w), XYScale) + Mul(29678, Square(w), XYScale)
                  + Mul(991, w, XYScale) + 2441
             ELSE -Mul(20064, Cube(w), XYScale) + Mul(19018, Square(w), XYScale)
                  + Mul(2475, w, XYScale) + 2370
        y == -3 * Square(x) + Mul(28700, x, XYScale) - 2750
    IN  IF xpoly = 0 THEN Raise("ValueError")
        ELSE [kind |-> "value", value |-> <<x, y>>, xpoly |-> xpoly]

\* McCamy's cubic and Hernandez-Andres' exponential sums are left
\* uninterpreted: the value is the application itself.
xy_to_CCT_mccamy1992(xy) == Value(<<"xy_to_CCT_mccamy1992", xy>>)

xy_to_CCT_hernandez1999(xy) == Value(<<"xy_to_CCT_hernandez1999", xy>>)

(***************************************************************************)
(* Robertson (1968): scan of the isotemperature lines.                     *)
(***************************************************************************)
\* The scale at which 1 + t * t is formed so that it stays in range.
WorkScale(t) ==
    IF Abs(t) <= 450000 THEN 10000
    ELSE IF Abs(t) <= 4500000 THEN 1000
    ELSE 100

\* du = 1.0; dv = t; len = sqrt(1 + dv * dv); du /= len; dv /= len
UnitTangent(t) ==
    LET s == WorkScale(t)
        ts == TDiv(t, UVScale \div s)
        len == Isqrt(s * s + ts * ts)
    IN  [du |-> RDiv(DScale * s, len),
         dv |-> Sign(ts) * RDiv(DScale * Abs(ts), len)]

\* (du, dv) / sqrt(du * du + dv * dv)
Normalised(du, dv) ==
    LET len == Isqrt(du * du + dv * dv)
    IN  [du |-> Sign(du) * RDiv(Abs(du) * DScale, len),
         dv |-> Sign(dv) * RDiv(Abs(dv) * DScale, len)]

\* a * f + b * (1 - f) for a fraction f of scale DScale.
Blend(a, b, f) == a * f + b * (DScale - f)

\* Lines 446-457: dt, the signed distance of (u, v) to line i along the
\* normal of the line, in units of 10 / (UVScale * DScale).
LineDistance(tbl, i, u, v) ==
    LET wr_ruvt == tbl[i + 1]
        tangent == UnitTangent(wr_ruvt.t)
        uu == u - wr_ruvt.u
        vv == v - wr_ruvt.v
    IN  TDiv(-uu * tangent.dv + vv * tangent.du, 10)

\* A return that keeps the sign of the projection.
RobertsonReturnUnsigned(T, Duv) == <<T, Duv>>

\* The value returned by line 491 once T and Duv are assigned.
RobertsonReturn(T, Duv) == <<T, -Duv>>

\* A fraction that gives the whole weight to the previous line at the
\* first line.
RobertsonFractionOneAtFirstLine(i, last_dt, dt) ==
    IF i = 1 THEN DScale ELSE TrueDiv(dt, last_dt + dt)

\* A fraction taken from the distance to the previous line.
RobertsonFractionOfPrevious(i, last_dt, dt) ==
    IF i = 1 THEN 0 ELSE TrueDiv(last_dt, last_dt + dt)

\* Lines 465-468: f = 0.0 at the first line, f = dt / (last_dt + dt) else,
\* as a fraction of scale DScale.
RobertsonFraction(i, last_dt, dt) ==
    IF i = 1 THEN 0 ELSE TrueDiv(dt, last_dt + dt)

\* Lines 459-485: the interpolation at the line i where the scan stops;
\* dt0 is the distance to that line, in units of 10 / (UVScale * DScale).
RobertsonInterpolate(tbl, l, i, dt0, tangent) ==
    LET wr_ruvt == tbl[i + 1]
        wr_ruvt_previous == tbl[i]
        dt == -(IF dt0 > 0 THEN 0 ELSE dt0)
        f == RobertsonFraction(i, l.last_dt, dt)
        r == Blend(wr_ruvt_previous.r, wr_ruvt.r, f)
        T == LongDiv(1000000000, r, 3)
        uu == RDiv(l.u * DScale - Blend(wr_ruvt_previous.u, wr_ruvt.u, f), DScale)
        vv == RDiv(l.v * DScale - Blend(wr_ruvt_previous.v, wr_ruvt.v, f), DScale)
        du == RDiv(Blend(l.last_du, tangent.du, f), DScale)
        dv == RDiv(Blend(l.last_dv, tangent.dv, f), DScale)
        n == Normalised(du, dv)
        Duv == RDiv(uu * n.du + vv * n.dv, DScale)
    IN  IF (i # 1 /\ l.last_dt + dt = 0) \/ r = 0 \/ (du = 0 /\ dv = 0)
        THEN [outcome |-> Raise("ZeroDivisionError"), dt |-> dt, f |-> 0]
        ELSE [outcome |-> Value(RobertsonReturn(T, Duv)), dt |-> dt, f |-> f]

\* A scan that stops on a distance that is not positive only.
RobertsonStopsOnSignOnly(dt, i) == dt <= 0

\* Line 459: if dt <= 0. or i == 30
RobertsonStops(dt, i) == dt <= 0 \/ i = 30

\* One pass of the loop of lines 442-489, or the return of line 491.
uv_to_CCT_robertson1968_scan ==
    /\ pc = "uv_to_CCT_robertson1968"
    /\ IF loc.i > 30
       THEN /\ ret' = Raise("UnboundLocalError")
            /\ pc' = "done"
            /\ loc' = loc
       ELSE LET i == loc.i
                wr_ruvt == lines[i + 1]
                tangent == UnitTangent(wr_ruvt.t)
                dt == LineDistance(lines, i, loc.u, loc.v)
            IN  IF RobertsonStops(dt, i)
                THEN LET res == RobertsonInterpolate(lines, loc, i, dt, tangent)
                     IN  /\ ret' = res.outcome
                         /\ pc' = "done"
                         /\ loc' = [loc EXCEPT !.dt = res.dt, !.f = res.f,
                                               !.raw_dt = dt]
                ELSE /\ loc' = [loc EXCEPT !.last_dt = dt,
                                           !.last_du = tangent.du,
                                           !.last_dv = tangent.dv,
                                           !.i = i + 1]
                     /\ UNCHANGED <<ret, pc>>
    /\ UNCHANGED <<lines, registries, op, args, invoked, origin>>

\* r = 1.0e6 / CCT, in units of 1/DScale reciprocal megakelvin.
ReciprocalMegakelvin(CCT) == LongDiv(1000000000, CCT, 3)

\* Lines 536-563: the uv on the pair of lines (i, i + 1).
RobertsonInverseInterpolate(tbl, i, r, Duv) ==
    LET wr_ruvt == tbl[i + 1]
        wr_ruvt_next == tbl[i + 2]
        f == LongDiv(wr_ruvt_next.r * DScale - r,
                     (wr_ruvt_next.r - wr_ruvt.r) * DScale, 4)
        u == RDiv(Blend(wr_ruvt.u, wr_ruvt_next.u, f), DScale)
        v == RDiv(Blend(wr_ruvt.v, wr_ruvt_next.v, f), DScale)
        t1 == UnitTangent(wr_ruvt.t)
        t2 == UnitTangent(wr_ruvt_next.t)
        uu3 == RDiv(Blend(t1.du, t2.du, f), DScale)
        vv3 == RDiv(Blend(t1.dv, t2.dv, f), DScale)
        n == Normalised(uu3, vv3)
    IN  IF wr_ruvt_next.r = wr_ruvt.r \/ (uu3 = 0 /\ vv3 = 0)
        THEN [outcome |-> Raise("ZeroDivisionError"), f |-> 0]
        ELSE [outcome |-> Value(<<u + RDiv(n.du * (-Duv), DScale),
                                  v + RDiv(n.dv * (-Duv), DScale)>>),
              f |-> f]

\* A scan that stops on a bracketing pair only.
RobertsonInverseStopsOnBracketOnly(r, wr_ruvt_next, i) ==
    r < wr_ruvt_next.r * DScale

\* Line 535: if r < wr_ruvt_next.r or i == 29
RobertsonInverseStops(r, wr_ruvt_next, i) ==
    r < wr_ruvt_next.r * DScale \/ i = 29

\* One pass of the loop of lines 531-563; falling out of the loop returns None.
CCT_to_uv_robertson1968_scan ==
    /\ pc = "CCT_to_uv_robertson1968"
    /\ IF loc.i > 29
       THEN /\ ret' = Value(None)
            /\ pc' = "done"
            /\ loc' = loc
       ELSE LET i == loc.i
            IN  IF RobertsonInverseStops(loc.r, lines[i + 2], i)
                THEN LET res == RobertsonInverseInterpolate(lines, i, loc.r, loc.Duv)
                     IN  /\ ret' = res.outcome
                         /\ pc' = "done"
                         /\ loc' = [loc EXCEPT !.f = res.f]
                ELSE /\ loc' = [loc EXCEPT !.i = i + 1]
                     /\ UNCHANGED <<ret, pc>>
    /\ UNCHANGED <<lines, registries, op, args, invoked, origin>>

(***************************************************************************)
(* Ohno (2013): cascade of planckian tables.                               *)
(***************************************************************************)
\* a * x / l without forming a * x, for l > 0.
MulDiv(a, x, l) ==
    LET a1 == Abs(a) \div l
        a0 == Abs(a) % l
        x1 == Abs(x) \div l
        x0 == Abs(x) % l
    IN  Sign(a) * Sign(x) * (a1 * x1 * l + a1 * x0 + a0 * x1 + (a0 * x0) \div l)

\* n * 10^k / d as LongDiv, held at +-bound when it would pass it.
ClampedLongDiv(n, d, k, bound) ==
    IF Abs(n) \div Abs(d) >= bound
    THEN Sign(n) * Sign(d) * bound * 100
    ELSE LongDiv(n, d, k)

\* seq[k] of a Python list: k counts from 0 and a negative k from the end.
InRange(seq, k) == -Len(seq) <= k /\ k < Len(seq)

At(seq, k) == IF k >= 0 THEN seq[k + 1] ELSE seq[Len(seq) + k + 1]

\* The segment of the tabulated locus that holds r: the last one beyond it.
RECURSIVE LocusSegment(_, _)
LocusSegment(r, k) ==
    IF k = 29 \/ r < ROBERTSON_ISOTEMPERATURE_LINES_DATA[k + 2][1] * DScale
    THEN k
    ELSE LocusSegment(r, k + 1)

\* The uv of the blackbody at temperature T for the observer cmfs (lines
\* 203-207): the spectral integration is replaced by the tabulated locus of
\* ROBERTSON_ISOTEMPERATURE_LINES_DATA, linear in the reciprocal temperature
\* and continued linearly beyond its last entry; another observer than the
\* 2 degree one shifts it.
PlanckianUV(cmfs, T) ==
    LET r == LongDiv(1000000000, T, 3)
        k == LocusSegment(r, 0)
        a == ROBERTSON_ISOTEMPERATURE_LINES_DATA[k + 1]
        b == ROBERTSON_ISOTEMPERATURE_LINES_DATA[k + 2]
        den == (b[1] - a[1]) * DScale
        shift == IF cmfs = CIE_2_1931 THEN 0 ELSE 150
    IN  [u |-> b[2] + MulDiv(b[1] * DScale - r, a[2] - b[2], den) + shift,
         v |-> b[3] + MulDiv(b[1] * DScale - r, a[3] - b[3], den) + shift]

\* np.linspace(start, end, count)[k]
Linspace(start, end, count, k) ==
    IF count = 1 THEN start
    ELSE start + ((end - start) * k) \div (count - 1)

PLANCKIAN_TABLE_TUVD(Ti, ui, vi, di) ==
    [Ti |-> Ti, ui |-> ui, vi |-> vi, di |-> di]

get_planckian_table(uv, cmfs, start, end, count) ==
    [k \in 1..Max(count, 0) |->
        LET Ti == Linspace(start, end, count, k - 1)
            p == PlanckianUV(cmfs, Ti)
            di == Isqrt((uv[1] - p.u) * (uv[1] - p.u)
                        + (uv[2] - p.v) * (uv[2] - p.v))
        IN  PLANCKIAN_TABLE_TUVD(Ti, p.u, p.v, di)]

\* min(seq): the items are taken in order and the least so far is kept.
RECURSIVE PyMin(_, _, _)
PyMin(seq, k, least) ==
    IF k > Len(seq) THEN least
    ELSE PyMin(seq, k + 1, IF seq[k] < least THEN seq[k] ELSE least)

\* The index of the last item equal to x, counted from 0.
PyIndexLast(seq, x, k) ==
    (CHOOSE j \in DOMAIN seq :
        seq[j] = x /\ \A i \in DOMAIN seq : seq[i] = x => i <= j) - 1

\* seq.index(x), counted from 0: the items are tried from the first on.
RECURSIVE PyIndex(_, _, _)
PyIndex(seq, x, k) ==
    IF seq[k] = x THEN k - 1 ELSE PyIndex(seq, x, k + 1)

\* distances.index(min(distances)) of a non-empty table.
get_planckian_table_minimal_distance_index(planckian_table) ==
    LET distances == [k \in DOMAIN planckian_table |-> planckian_table[k].di]
    IN  PyIndex(distances, PyMin(distances, 2, distances[1]), 1)

\* No boundary policy: the index is left where the minimum is.
BoundaryPolicyAbsent(index, length) == index

\* Lines 297-304: a minimum on a bound of the table is moved inwards.
BoundaryPolicy(index, length) ==
    IF index = 0 THEN index + 1
    ELSE IF index = length - 1 THEN index - 1
    ELSE index

\* The iterations taken as given.
UnclampedIterations(iterations) == iterations

\* if iterations <= 0: iterations = 1
ClampIterations(iterations) == IF iterations <= 0 THEN 1 ELSE iterations

\* One pass of the loop of lines 294-307.
uv_to_CCT_ohno2013_cascade ==
    /\ pc = "uv_to_CCT_ohno2013"
    /\ loc.i < loc.iterations
    /\ LET planckian_table ==
               get_planckian_table(loc.uv, loc.cmfs, loc.start, loc.end, loc.count)
       IN  IF Len(planckian_table) = 0
           THEN /\ ret' = Raise("ValueError")
                /\ pc' = "done"
                /\ loc' = [loc EXCEPT !.planckian_table = planckian_table,
                                      !.built = loc.built + 1]
           ELSE LET minimal ==
                        get_planckian_table_minimal_distance_index(planckian_table)
                    index == BoundaryPolicy(minimal, Len(planckian_table))
                IN  IF InRange(planckian_table, index - 1)
                       /\ InRange(planckian_table, index + 1)
                    THEN /\ loc' = [loc EXCEPT
                                !.planckian_table = planckian_table,
                                !.built = loc.built + 1,
                                !.minimal = minimal,
                                !.index = index,
                                !.start = At(planckian_table, index - 1).Ti,
                                !.end = At(planckian_table, index + 1).Ti,
                                !.i = loc.i + 1]
                         /\ UNCHANGED <<ret, pc>>
                    ELSE /\ ret' = Raise("IndexError")
                         /\ pc' = "done"
                         /\ loc' = [loc EXCEPT
                                !.planckian_table = planckian_table,
                                !.built = loc.built + 1,
                                !.minimal = minimal,
                                !.index = index]
    /\ UNCHANGED <<lines, registries, op, args, invoked, origin>>

\* Lines 319-325: the triangular solution on the entries before, at and
\* after the index.
TriangularSolution(uv, Tuvdip, Tuvdin) ==
    LET l == Isqrt((Tuvdin.ui - Tuvdip.ui) * (Tuvdin.ui - Tuvdip.ui)
                   + (Tuvdin.vi - Tuvdip.vi) * (Tuvdin.vi - Tuvdip.vi))
        x == (Tuvdip.di * Tuvdip.di - Tuvdin.di * Tuvdin.di + l * l) \div (2 * l)
        T == Tuvdip.Ti + MulDiv(Tuvdin.Ti - Tuvdip.Ti, x, l)
        vtx == Tuvdip.vi + MulDiv(Tuvdin.vi - Tuvdip.vi, x, l)
        sign == IF uv[2] - vtx >= 0 THEN 1 ELSE -1
        radicand == Tuvdip.di * Tuvdip.di - x * x
    IN  IF l = 0 THEN [error |-> "ZeroDivisionError"]
        ELSE IF radicand < 0 THEN [error |-> "ValueError"]
        ELSE [error |-> None, T |-> T, sign |-> sign,
              Duv |-> Isqrt(radicand) * sign]

\* Lines 329-338: the vertex of the parabola through the three (Ti, di),
\* in temperatures counted from the middle one in hundredths of the wider
\* of the two steps.
ParabolicSolution(sign, Tuvdip, Tuvdi, Tuvdin) ==
    LET H == Max(Abs(Tuvdip.Ti - Tuvdi.Ti), Abs(Tuvdin.Ti - Tuvdi.Ti))
        P == LongDiv(Tuvdip.Ti - Tuvdi.Ti, H, 2)
        N == LongDiv(Tuvdin.Ti - Tuvdi.Ti, H, 2)
        X == N * (P - N) * (-P)
        A == P * (Tuvdin.di - Tuvdi.di) + N * (Tuvdi.di - Tuvdip.di)
        B == P * P * (Tuvdin.di - Tuvdi.di) + N * N * (Tuvdi.di - Tuvdip.di)
        vertex == ClampedLongDiv(B, 2 * A, 2, 20000)
        slope == LongDiv(B, 2 * X, 2)
    IN  IF H = 0 THEN [error |-> "ZeroDivisionError"]
        ELSE IF X = 0 \/ A = 0 THEN [error |-> "ZeroDivisionError"]
        ELSE [error |-> None,
              T |-> Tuvdi.Ti + MulDiv(H, vertex, 10000),
              Duv |-> sign * (Tuvdi.di - MulDiv(vertex, slope, 10000))]

\* if Duv < 0.002
ParabolicThreshold(Duv) == Duv < 200

\* Lines 309-340, once the loop is over.
uv_to_CCT_ohno2013_solve ==
    /\ pc = "uv_to_CCT_ohno2013"
    /\ loc.i >= loc.iterations
    /\ LET index == loc.index
           Tuvdip == At(loc.planckian_table, index - 1)
           Tuvdi == At(loc.planckian_table, index)
           Tuvdin == At(loc.planckian_table, index + 1)
           tri == TriangularSolution(loc.uv, Tuvdip, Tuvdin)
           par == ParabolicSolution(tri.sign, Tuvdip, Tuvdi, Tuvdin)
       IN  /\ pc' = "done"
           /\ IF loc.built = 0
              THEN /\ ret' = Raise("UnboundLocalError")
                   /\ loc' = loc
              ELSE IF tri.error # None
              THEN /\ ret' = Raise(tri.error)
                   /\ loc' = loc
              ELSE IF ~ParabolicThreshold(tri.Duv)
              THEN /\ ret' = Value(<<tri.T, tri.Duv>>)
                   /\ loc' = [loc EXCEPT !.solution = "triangular",
                                         !.triangular = <<tri.T, tri.Duv>>]
              ELSE IF par.error # None
              THEN /\ ret' = Raise(par.error)
                   /\ loc' = [loc EXCEPT !.triangular = <<tri.T, tri.Duv>>]
              ELSE /\ ret' = Value(<<par.T, par.Duv>>)
                   /\ loc' = [loc EXCEPT !.solution = "parabolic",
                                         !.triangular = <<tri.T, tri.Duv>>]
    /\ UNCHANGED <<lines, registries, op, args, invoked, origin>>

\* Lines 378-401. The tangent is a finite difference over 0.01 K, below
\* the resolution of the fixed point locus: the value is left uninterpreted
\* but for the branch on Duv.
CCT_to_uv_ohno2013(CCT, Duv, cmfs) ==
    IF Duv = 0
    THEN Value(<<PlanckianUV(cmfs, CCT).u, PlanckianUV(cmfs, CCT).v>>)
    ELSE Value(<<"CCT_to_uv_ohno2013", CCT, Duv, cmfs.name>>)

(***************************************************************************)
(* Calls: binding of the arguments and entry into an implementation.       *)
(***************************************************************************)
\* The keyword names an implementation accepts beside what is passed
\* positionally.
Keywords(impl) ==
    CASE impl = "uv_to_CCT_ohno2013" ->
            {"cmfs", "start", "end", "count", "iterations"}
      [] impl = "CCT_to_uv_ohno2013" -> {"cmfs"}
      [] OTHER -> {}

Arg(kw, name, default) == IF name \in DOMAIN kw THEN kw[name] ELSE default

\* The call impl(*pos, **kw): calling None or passing an unexpected keyword
\* raises TypeError before any body runs; otherwise the body is entered.
Enter(impl, pos, kw) ==
    IF impl = None \/ ~(DOMAIN kw \subseteq Keywords(impl))
    THEN /\ ret' = Raise("TypeError")
         /\ pc' = "done"
         /\ UNCHANGED <<invoked, loc>>
    ELSE /\ invoked' = Append(invoked, [impl |-> impl, pos |-> pos, kw |-> kw])
         /\ CASE impl = "uv_to_CCT_ohno2013" ->
                    /\ pc' = impl
                    /\ ret' = NoOutcome
                    /\ loc' = [uv |-> pos[1],
                               cmfs |-> Arg(kw, "cmfs", CIE_2_1931),
                               start |-> Arg(kw, "start", CCT_MINIMAL * TScale),
                               end |-> Arg(kw, "end", CCT_MAXIMAL * TScale),
                               count |-> Arg(kw, "count", CCT_SAMPLES),
                               iterations |-> ClampIterations(
                                   Arg(kw, "iterations", CCT_CALCULATION_ITERATIONS)),
                               i |-> 0, built |-> 0, planckian_table |-> <<>>,
                               minimal |-> None, index |-> None,
                               solution |-> None,
                               triangular |-> None]
              [] impl = "uv_to_CCT_robertson1968" ->
                    /\ pc' = impl
                    /\ ret' = NoOutcome
                    /\ loc' = [u |-> pos[1][1], v |-> pos[1][2],
                               last_dt |-> 0, last_du |-> 0, last_dv |-> 0,
                               i |-> 1, dt |-> None, f |-> None, raw_dt |-> None]
              [] impl = "CCT_to_uv_robertson1968" ->
                    IF pos[1] = 0
                    THEN /\ pc' = "done"
                         /\ ret' = Raise("ZeroDivisionError")
                         /\ loc' = [i |-> 0]
                    ELSE /\ pc' = impl
                         /\ ret' = NoOutcome
                         /\ loc' = [r |-> ReciprocalMegakelvin(pos[1]),
                                    Duv |-> pos[2], i |-> 0, f |-> None]
              [] impl = "get_planckian_table_minimal_distance_index" ->
                    /\ pc' = "done"
                    /\ ret' = IF Len(pos[1]) = 0 THEN Raise("ValueError")
                              ELSE Value(get_planckian_table_minimal_distance_index(
                                             pos[1]))
                    /\ loc' = [i |-> 0]
              [] impl = "CCT_to_uv_ohno2013" ->
                    /\ pc' = "done"
                    /\ ret' = CCT_to_uv_ohno2013(pos[1], pos[2],
                                                 Arg(kw, "cmfs", CIE_2_1931))
                    /\ loc' = [i |-> 0]
              [] impl = "xy_to_CCT_mccamy1992" ->
                    /\ pc' = "done"
                    /\ ret' = xy_to_CCT_mccamy1992(pos[1])
                    /\ loc' = [i |-> 0]
              [] impl = "xy_to_CCT_hernandez1999" ->
                    /\ pc' = "done"
                    /\ ret' = xy_to_CCT_hernandez1999(pos[1])
                    /\ loc' = [i |-> 0]
              [] impl = "CCT_to_xy_kang2002" ->
                    /\ pc' = "done"
                    /\ ret' = CCT_to_xy_kang2002(pos[1])
                    /\ loc' = [i |-> 0]
              [] impl = "CCT_to_xy_illuminant_D" ->
                    /\ pc' = "done"
                    /\ ret' = CCT_to_xy_illuminant_D(pos[1])
                    /\ loc' = [i |-> 0]

\* The caller invokes the public operation name with the arguments a.
Invoke(name, a) ==
    /\ pc = "idle"
    /\ op' = name
    /\ args' = a
    /\ UNCHANGED <<lines, registries, origin>>

\* A dispatch that validates no observer.
ObserverNeverRejected(kwargs) == FALSE

\* "cmfs" in kwargs and kwargs.get("cmfs").name != "CIE 1931 2 Degree ..."
RobertsonObserverRejected(kwargs) ==
    /\ "cmfs" \in DOMAIN kwargs
    /\ kwargs["cmfs"].name # "CIE 1931 2 Degree Standard Observer"

\* A dispatch that hands its keyword arguments to every implementation.
ForwardedKwargs(kwargs) == kwargs

\* Lines 607 and 653: the implementation is called without the keyword
\* arguments of the dispatch function.
RobertsonKwargs(kwargs) == NoKwargs

\* Lines 598-607.
uv_to_CCT(uv, method, kwargs) ==
    /\ Invoke("uv_to_CCT", [uv |-> uv, method |-> method, kwargs |-> kwargs])
    /\ IF method = "Ohno 2013"
       THEN Enter(Get(registries.UV_TO_CCT_METHODS, method), <<uv>>, kwargs)
       ELSE IF RobertsonObserverRejected(kwargs)
       THEN /\ ret' = ObserverError
            /\ pc' = "done"
            /\ UNCHANGED <<invoked, loc>>
       ELSE Enter(Get(registries.UV_TO_CCT_METHODS, method), <<uv>>,
                  RobertsonKwargs(kwargs))

\* Lines 644-653.
CCT_to_uv(CCT, Duv, method, kwargs) ==
    /\ Invoke("CCT_to_uv",
              [CCT |-> CCT, Duv |-> Duv, method |-> method, kwargs |-> kwargs])
    /\ IF method = "Ohno 2013"
       THEN Enter(Get(registries.CCT_TO_UV_METHODS, method), <<CCT, Duv>>, kwargs)
       ELSE IF RobertsonObserverRejected(kwargs)
       THEN /\ ret' = ObserverError
            /\ pc' = "done"
            /\ UNCHANGED <<invoked, loc>>
       ELSE Enter(Get(registries.CCT_TO_UV_METHODS, method), <<CCT, Duv>>,
                  RobertsonKwargs(kwargs))

\* Line 871: the keyword arguments are accepted and dropped.
xy_to_CCT(xy, method, kwargs) ==
    /\ Invoke("xy_to_CCT", [xy |-> xy, method |-> method, kwargs |-> kwargs])
    /\ Enter(Get(registries.XY_TO_CCT_METHODS, method), <<xy>>, NoKwargs)

\* Line 901.
CCT_to_xy(CCT, method) ==
    /\ Invoke("CCT_to_xy", [CCT |-> CCT, method |-> method])
    /\ Enter(Get(registries.CCT_TO_XY_METHODS, method), <<CCT>>, NoKwargs)

\* A direct call of an implementation.
Call(impl, pos, kw) ==
    /\ Invoke(impl, [pos |-> pos, kw |-> kw])
    /\ Enter(impl, pos, kw)

\* A return that also empties a registry.
ReturnClearingRegistry ==
    /\ pc = "done"
    /\ pc' = "idle"
    /\ op' = None
    /\ args' = <<>>
    /\ invoked' = <<>>
    /\ loc' = <<>>
    /\ ret' = NoOutcome
    /\ origin' = None
    /\ registries' = [registries EXCEPT !.CCT_TO_XY_METHODS = [k \in {} |-> None]]
    /\ UNCHANGED lines

\* The caller takes the outcome: the call is over.
Return ==
    /\ pc = "done"
    /\ pc' = "idle"
    /\ op' = None
    /\ args' = <<>>
    /\ invoked' = <<>>
    /\ loc' = <<>>
    /\ ret' = NoOutcome
    /\ origin' = None
    /\ UNCHANGED <<lines, registries>>

\* The caller feeds the (T, Duv) returned by uv_to_CCT_robertson1968 to
\* CCT_to_uv_robertson1968, keeping the uv it started from.
RobertsonRoundTrip ==
    /\ pc = "done"
    /\ op = "uv_to_CCT_robertson1968"
    /\ ret.kind = "value"
    /\ origin = None
    /\ origin' = args.pos[1]
    /\ op' = "CCT_to_uv_robertson1968"
    /\ args' = [pos |-> ret.value, kw |-> NoKwargs]
    /\ Enter("CCT_to_uv_robertson1968", ret.value, NoKwargs)
    /\ UNCHANGED <<lines, registries>>

Init ==
    /\ lines = ROBERTSON_ISOTEMPERATURE_LINES
    /\ registries = [UV_TO_CCT_METHODS |-> UV_TO_CCT_METHODS,
                     CCT_TO_UV_METHODS |-> CCT_TO_UV_METHODS,
                     XY_TO_CCT_METHODS |-> XY_TO_CCT_METHODS,
                     CCT_TO_XY_METHODS |-> CCT_TO_XY_METHODS]
    /\ pc = "idle"
    /\ op = None
    /\ args = <<>>
    /\ invoked = <<>>
    /\ loc = <<>>
    /\ ret = NoOutcome
    /\ origin = None

(***************************************************************************)
(* The arguments the caller draws.                                         *)
(***************************************************************************)
\* The uv grid of the Robertson calls: GridU + 1 by GridV + 1 points.
GridU == 20

GridV == 14

GridStep == 1000

GridUV ==
    {<<16000 + i * GridStep, 25000 + j * GridStep>> : i \in 0..GridU, j \in 0..GridV}

\* The uv of the examples, a uv of the locus beyond 100000 K, and uv
\* above and below the locus.
NamedUV ==
    {<<19780, 31220>>, <<19374, 31522>>, <<18036, 26470>>, <<20000, 30000>>,
     <<25000, 35500>>, <<44000, 35400>>}

\* A uv that lies within 5 / (UVScale * 1000) of isotemperature line 27,
\* on the side of line 28.
OnLineUV == {<<31325, 35890>>}

RobertsonUV == GridUV \cup NamedUV \cup OnLineUV

\* Temperatures, in kelvin, around which the closed forms change.
BreakCCT == {1667, 2222, 4000, 7000, 25000}

\* The temperature grid: from -CCTStep to MaxCCTGrid * CCTStep kelvin.
MaxCCTGrid == 60

CCTStep == 500

SampleCCT ==
    {b * TScale + d : b \in BreakCCT, d \in {-1, 0, 1}}
    \cup {k * CCTStep * TScale : k \in -1..MaxCCTGrid}

\* Temperatures the Robertson inverse is called with.
InverseCCT == {-2000000, 0, 140000, 166666, 250000, 650000, 650002, 1000000,
               10000000, 20000000}

SampleDuv == {-500, 0, 322, 833}

\* The samples and iterations of the Ohno calls.
MaxCount == 4

MaxIterations == 3

SampleCount == 0..MaxCount \cup {CCT_SAMPLES}

SampleIterations == -1..MaxIterations \cup {CCT_CALCULATION_ITERATIONS}

SampleRange == {<<CCT_MINIMAL * TScale, CCT_MAXIMAL * TScale>>,
                <<400000, 1000000>>}

\* The tables get_planckian_table_minimal_distance_index is called with:
\* up to MaxTable entries of a di up to MaxDistance.
MaxTable == 3

MaxDistance == 2

SampleTables ==
    UNION {[1..n -> {PLANCKIAN_TABLE_TUVD(CCT_MINIMAL * TScale, 0, 0, di) :
                        di \in 0..MaxDistance}] : n \in 0..MaxTable}

Observers == {CIE_2_1931, CIE_10_1964}

Methods == {"Ohno 2013", "Robertson 1968", "McCamy 1992", "Hernandez 1999",
            "Kang 2002", "CIE Illuminant D Series", "Bogus 1900"}

\* The keyword arguments given to a dispatch function.
Option(name, values) == {NoKwargs} \cup {name :> x : x \in values}

SampleKwargs ==
    {a @@ b @@ c @@ d :
        a \in Option("cmfs", Observers), b \in Option("iterations", {2}),
        c \in Option("count", {4}), d \in Option("gamma", {1})}

DispatchUV == {<<19780, 31220>>, <<20000, 30000>>}

DispatchCCT == {650743, 400000}

SampleXY == {<<31271, 32902>>, <<33200, 18580>>}

(***************************************************************************)
(* The operations.                                                         *)
(***************************************************************************)
Dispatch ==
    \/ pc = "idle" /\ \E uv \in DispatchUV, method \in Methods, kwargs \in SampleKwargs :
          uv_to_CCT(uv, method, kwargs)
    \/ pc = "idle" /\ \E CCT \in DispatchCCT, Duv \in SampleDuv, method \in Methods,
          kwargs \in SampleKwargs :
          CCT_to_uv(CCT, Duv, method, kwargs)
    \/ pc = "idle" /\ \E xy \in SampleXY, method \in Methods, kwargs \in SampleKwargs :
          xy_to_CCT(xy, method, kwargs)
    \/ pc = "idle" /\ \E CCT \in SampleCCT, method \in Methods :
          CCT_to_xy(CCT, method)

Formulas ==
    \/ pc = "idle" /\ \E CCT \in SampleCCT : Call("CCT_to_xy_kang2002", <<CCT>>, NoKwargs)
    \/ pc = "idle" /\ \E CCT \in SampleCCT : Call("CCT_to_xy_illuminant_D", <<CCT>>, NoKwargs)
    \/ pc = "idle" /\ \E xy \in SampleXY : Call("xy_to_CCT_mccamy1992", <<xy>>, NoKwargs)
    \/ pc = "idle" /\ \E xy \in SampleXY : Call("xy_to_CCT_hernandez1999", <<xy>>, NoKwargs)

Robertson ==
    \/ pc = "idle" /\ \E uv \in RobertsonUV : Call("uv_to_CCT_robertson1968", <<uv>>, NoKwargs)
    \/ pc = "idle" /\ \E CCT \in InverseCCT, Duv \in SampleDuv :
          Call("CCT_to_uv_robertson1968", <<CCT, Duv>>, NoKwargs)
    \/ RobertsonRoundTrip

Ohno ==
    \/ pc = "idle" /\ \E uv \in NamedUV, cmfs \in Observers, range \in SampleRange,
          count \in SampleCount, iterations \in SampleIterations :
          Call("uv_to_CCT_ohno2013", <<uv>>,
               ("cmfs" :> cmfs) @@ ("start" :> range[1]) @@ ("end" :> range[2])
               @@ ("count" :> count) @@ ("iterations" :> iterations))
    \/ pc = "idle" /\ \E uv \in NamedUV : Call("uv_to_CCT_ohno2013", <<uv>>, NoKwargs)
    \/ pc = "idle" /\ \E CCT \in DispatchCCT, Duv \in SampleDuv, cmfs \in Observers :
          Call("CCT_to_uv_ohno2013", <<CCT, Duv>>, "cmfs" :> cmfs)
    \/ pc = "idle" /\ \E planckian_table \in SampleTables :
          Call("get_planckian_table_minimal_distance_index", <<planckian_table>>,
               NoKwargs)

Steps ==
    \/ uv_to_CCT_ohno2013_cascade
    \/ uv_to_CCT_ohno2013_solve
    \/ uv_to_CCT_robertson1968_scan
    \/ CCT_to_uv_robertson1968_scan
    \/ Return

Next == Dispatch \/ Formulas \/ Robertson \/ Ohno \/ Steps

Spec == Init /\ [][Next]_vars

\* The dispatch functions alone.
NextDispatch == Dispatch \/ Steps

SpecDispatch == Init /\ [][NextDispatch]_vars

\* The closed forms alone.
NextFormulas == Formulas \/ Return

SpecFormulas == Init /\ [][NextFormulas]_vars

\* The Robertson functions alone.
NextRobertson ==
    Robertson \/ uv_to_CCT_robertson1968_scan \/ CCT_to_uv_robertson1968_scan
    \/ Return

SpecRobertson == Init /\ [][NextRobertson]_vars

\* The Ohno functions alone.
NextOhno ==
    Ohno \/ uv_to_CCT_ohno2013_cascade \/ uv_to_CCT_ohno2013_solve \/ Return

SpecOhno == Init /\ [][NextOhno]_vars

(***************************************************************************)
(* Properties of the dispatch functions.                                   *)
(***************************************************************************)
\* A call of one of the two dispatch functions that take keyword arguments
\* on to an implementation.
InUVDispatch == op \in {"uv_to_CCT", "CCT_to_uv"}

\* The positional arguments the dispatch function hands on.
DispatchPositional ==
    IF op = "uv_to_CCT" THEN <<args.uv>> ELSE <<args.CCT, args.Duv>>

\* C1: in uv_to_CCT and in CCT_to_uv, method "Robertson 1968" with a cmfs
\* keyword whose name is not "CIE 1931 2 Degree Standard Observer" ends in
\* the validation error and no Robertson implementation is invoked; with
\* method "Ohno 2013" the call never ends in this validation error.
RobertsonObserverValidation ==
    InUVDispatch =>
        /\ (/\ args.method = "Robertson 1968"
            /\ "cmfs" \in DOMAIN args.kwargs
            /\ args.kwargs["cmfs"].name # "CIE 1931 2 Degree Standard Observer")
           => (pc = "done" /\ ret = ObserverError /\ invoked = <<>>)
        /\ args.method = "Ohno 2013" => ret # ObserverError

\* CCT_to_uv(6507.43, 0.00322, "Robertson 1968", cmfs=<10 degree observer>)
\* has ended in the validation error.
RobertsonObserverRejectedReached ==
    /\ pc = "done"
    /\ op = "CCT_to_uv"
    /\ args.method = "Robertson 1968"
    /\ "cmfs" \in DOMAIN args.kwargs
    /\ args.kwargs["cmfs"] = CIE_10_1964
    /\ ret = ObserverError
    /\ invoked = <<>>

\* The registry a dispatch function looks its method up in.
RegistryOf(name) ==
    CASE name = "uv_to_CCT" -> registries.UV_TO_CCT_METHODS
      [] name = "CCT_to_uv" -> registries.CCT_TO_UV_METHODS
      [] name = "xy_to_CCT" -> registries.XY_TO_CCT_METHODS
      [] name = "CCT_to_xy" -> registries.CCT_TO_XY_METHODS

\* C2: in each of the four dispatch functions a method that is no key of
\* the registry ends, whatever the other arguments and keyword arguments,
\* in the failure of the missing method (the call of the None that the
\* lookup gave), and no implementation is invoked.
UnknownMethodFailsOnLookup ==
    (/\ op \in {"uv_to_CCT", "CCT_to_uv", "xy_to_CCT", "CCT_to_xy"}
     /\ args.method \notin DOMAIN RegistryOf(op))
    => (pc = "done" /\ ret = Raise("TypeError") /\ invoked = <<>>)

\* C7: uv_to_CCT and CCT_to_uv hand their keyword arguments on unchanged
\* when method is "Ohno 2013" (the call binds them or fails on a keyword the
\* implementation does not take); with method "Robertson 1968" and no
\* rejected observer, the one implementation invoked is the Robertson one,
\* with the positional arguments and no keyword argument, whatever keywords
\* were given.
KeywordsForwardedToOhnoOnly ==
    InUVDispatch =>
        /\ args.method = "Ohno 2013" =>
              \/ invoked = <<[impl |-> Get(RegistryOf(op), "Ohno 2013"),
                              pos |-> DispatchPositional,
                              kw |-> args.kwargs]>>
              \/ /\ invoked = <<>>
                 /\ ret = Raise("TypeError")
                 /\ ~(DOMAIN args.kwargs
                        \subseteq Keywords(Get(RegistryOf(op), "Ohno 2013")))
        /\ (/\ args.method = "Robertson 1968"
            /\ ~("cmfs" \in DOMAIN args.kwargs
                 /\ args.kwargs["cmfs"].name # "CIE 1931 2 Degree Standard Observer"))
           => invoked = <<[impl |-> Get(RegistryOf(op), "Robertson 1968"),
                           pos |-> DispatchPositional,
                           kw |-> NoKwargs]>>

\* uv_to_CCT(uv, "Robertson 1968", cmfs=<2 degree observer>, iterations=2,
\* count=4) has returned a value.
RobertsonKeywordsDroppedReached ==
    /\ pc = "done"
    /\ op = "uv_to_CCT"
    /\ args.method = "Robertson 1968"
    /\ DOMAIN args.kwargs = {"cmfs", "iterations", "count"}
    /\ Len(invoked) = 1
    /\ invoked[1].kw = NoKwargs
    /\ ret.kind = "value"

(***************************************************************************)
(* Properties of the closed forms.                                         *)
(***************************************************************************)
\* C3: CCT_to_xy_kang2002 raises the domain error exactly when CCT is
\* outside [1667, 25000] K, with nothing returned; for every CCT inside,
\* 1667, 2222, 4000 and 25000 K included, it returns a pair (x, y) of two
\* computed numbers.
KangDomain ==
    (pc = "done" /\ op = "CCT_to_xy_kang2002") =>
        LET CCT == args.pos[1]
            outside == CCT < 1667 * TScale \/ CCT > 25000 * TScale
        IN  /\ outside <=> ret = Raise("ValueError")
            /\ ~outside =>
                  /\ ret.kind = "value"
                  /\ Len(ret.value) = 2
                  /\ ret.value[1] \in Int
                  /\ ret.value[2] \in Int

\* CCT_to_xy_kang2002(2222) has returned a pair.
KangBreakpointReached ==
    /\ pc = "done"
    /\ op = "CCT_to_xy_kang2002"
    /\ args.pos[1] = 2222 * TScale
    /\ ret.kind = "value"
    /\ Len(ret.value) = 2

\* C4: CCT_to_xy_illuminant_D raises the domain error exactly when CCT is
\* outside [4000, 25000] K; inside, x comes from the first polynomial for
\* CCT in [4000, 7000] and from the second for CCT in (7000, 25000], and a
\* pair (x, y) is returned.
IlluminantDDomain ==
    (pc = "done" /\ op = "CCT_to_xy_illuminant_D") =>
        LET CCT == args.pos[1]
            outside == CCT < 4000 * TScale \/ CCT > 25000 * TScale
        IN  /\ outside <=> ret = Raise("ValueError")
            /\ ~outside =>
                  /\ ret.kind = "value"
                  /\ Len(ret.value) = 2
                  /\ ret.value[1] \in Int
                  /\ ret.value[2] \in Int
                  /\ ret.xpoly = (IF CCT <= 7000 * TScale THEN 1 ELSE 2)

\* CCT_to_xy_illuminant_D(7000) has returned a pair from the first
\* polynomial.
IlluminantDBreakpointReached ==
    /\ pc = "done"
    /\ op = "CCT_to_xy_illuminant_D"
    /\ args.pos[1] = 7000 * TScale
    /\ ret.kind = "value"
    /\ ret.xpoly = 1

(***************************************************************************)
(* Properties of the Ohno cascade.                                         *)
(***************************************************************************)
\* A table and the index get_planckian_table_minimal_distance_index gave
\* for it: the table of a direct call that has returned, or the table the
\* running cascade built last.
MinimalDistanceLookups ==
    IF pc = "done" /\ op = "get_planckian_table_minimal_distance_index"
       /\ ret.kind = "value"
    THEN {[table |-> args.pos[1], index |-> ret.value]}
    ELSE IF op = "uv_to_CCT_ohno2013" /\ pc \in {"uv_to_CCT_ohno2013", "done"}
            /\ Len(loc.planckian_table) > 0
    THEN {[table |-> loc.planckian_table, index |-> loc.minimal]}
    ELSE {}

\* C5: the index get_planckian_table_minimal_distance_index returns for a
\* non-empty table has a di no greater than the di of any entry, and is the
\* smallest index among the entries that share this least di.
MinimalDistanceIndexIsFirstMinimum ==
    /\ \A l \in MinimalDistanceLookups :
          /\ l.index \in 0..(Len(l.table) - 1)
          /\ \A j \in 0..(Len(l.table) - 1) :
                /\ l.table[l.index + 1].di <= l.table[j + 1].di
                /\ l.table[j + 1].di = l.table[l.index + 1].di => l.index <= j
    /\ (/\ pc = "done"
        /\ op = "get_planckian_table_minimal_distance_index"
        /\ Len(args.pos[1]) > 0) => ret.kind = "value"

\* The index of a table of three entries whose second and third share the
\* least di has been returned.
MinimalDistanceTieReached ==
    /\ pc = "done"
    /\ op = "get_planckian_table_minimal_distance_index"
    /\ Len(args.pos[1]) = 3
    /\ args.pos[1][1].di > args.pos[1][2].di
    /\ args.pos[1][2].di = args.pos[1][3].di
    /\ ret = Value(1)

\* The iterations and count a running uv_to_CCT_ohno2013 was called with.
OhnoRequestedIterations ==
    Arg(invoked[1].kw, "iterations", CCT_CALCULATION_ITERATIONS)

OhnoRequestedCount == Arg(invoked[1].kw, "count", CCT_SAMPLES)

\* The values lines 309-340 compute from the table last built.
OhnoSolutionsOfLastTable ==
    LET Tuvdip == At(loc.planckian_table, loc.index - 1)
        Tuvdi == At(loc.planckian_table, loc.index)
        Tuvdin == At(loc.planckian_table, loc.index + 1)
        tri == TriangularSolution(loc.uv, Tuvdip, Tuvdin)
        par == ParabolicSolution(tri.sign, Tuvdip, Tuvdi, Tuvdin)
    IN  {<<tri.T, tri.Duv>>} \cup
        (IF par.error = None THEN {<<par.T, par.Duv>>} ELSE {})

RoundTripTolerance == UVScale \div 10000

\* The round trip of the uv kept in origin is over.
RobertsonRoundTripOver ==
    /\ pc = "done"
    /\ op = "CCT_to_uv_robertson1968"
    /\ origin # None

\* The uv given back is the uv the round trip started from, within the
\* tolerance.
RobertsonRoundTripCloses ==
    /\ ret.kind = "value"
    /\ Len(ret.value) = 2
    /\ Abs(ret.value[1] - origin[1]) <= RoundTripTolerance
    /\ Abs(ret.value[2] - origin[2]) <= RoundTripTolerance

\* uv lies past line first and not past line last of the table.
BetweenLines(uv, first, last) ==
    /\ LineDistance(lines, first, uv[1], uv[2]) > 0
    /\ LineDistance(lines, last, uv[1], uv[2]) <= 0

\* C9, as stated: for every uv between the first and the last line of the
\* table, uv_to_CCT_robertson1968 followed by CCT_to_uv_robertson1968 gives
\* the uv back within the tolerance.
RobertsonRoundTripOverWholeTable ==
    (RobertsonRoundTripOver /\ BetweenLines(origin, 0, 30))
        => RobertsonRoundTripCloses

\* C9, amended: for every uv between line 1 (100000 K) and line 30
\* (1667 K), uv_to_CCT_robertson1968 followed by CCT_to_uv_robertson1968
\* gives the uv back within the tolerance, for a positive and for a negative
\* Duv alike: the negation of the forward solver and the -Duv offset of the
\* inverse cancel.
RobertsonRoundTripBetweenScannedLines ==
    (RobertsonRoundTripOver /\ BetweenLines(origin, 1, 30))
        => RobertsonRoundTripCloses

\* The round trip of (0.2, 0.3), below the locus with a Duv beyond the
\* tolerance, has given the uv back.
RobertsonSignedRoundTripReached ==
    /\ RobertsonRoundTripOver
    /\ origin = <<20000, 30000>>
    /\ BetweenLines(origin, 1, 30)
    /\ args.pos[2] < -RoundTripTolerance
    /\ RobertsonRoundTripCloses

(***************************************************************************)
(* Properties of the passes of the Ohno cascade.                           *)
(***************************************************************************)
\* uv_to_CCT_ohno2013 has built a non-empty table and applied the boundary
\* policy to its minimal distance index.
OhnoPassMade ==
    /\ op = "uv_to_CCT_ohno2013"
    /\ pc \in {"uv_to_CCT_ohno2013", "done"}
    /\ Len(loc.planckian_table) > 0

\* C11: in every pass of the cascade with a count of 2 or more, the index
\* left by the boundary policy has a left and a right neighbour in the
\* table: index - 1 >= 0 and index + 1 <= count - 1.
OhnoNeighboursInTable ==
    (OhnoPassMade /\ loc.count >= 2) =>
        /\ loc.index - 1 >= 0
        /\ loc.index + 1 <= loc.count - 1

\* The last pass of the cascade went through: the interval was narrowed to
\* the neighbours of the index (lines 306-307).
OhnoPassNarrowed ==
    /\ OhnoPassMade
    /\ loc.i = loc.built
    /\ Arg(invoked[1].kw, "start", CCT_MINIMAL * TScale)
          < Arg(invoked[1].kw, "end", CCT_MAXIMAL * TScale)

\* The interval the last table was sampled over: np.linspace holds both of
\* its ends.
OhnoPreviousInterval ==
    <<loc.planckian_table[1].Ti,
      loc.planckian_table[Len(loc.planckian_table)].Ti>>

\* The interval of the last pass lies in the interval before it, is not
\* empty, and is strictly narrower.
OhnoIntervalShrank ==
    /\ OhnoPreviousInterval[1] <= loc.start
    /\ loc.end <= OhnoPreviousInterval[2]
    /\ loc.start < loc.end
    /\ loc.end - loc.start < OhnoPreviousInterval[2] - OhnoPreviousInterval[1]

\* The temperatures of the last table are distinct and ascending.
OhnoSamplesDistinct ==
    \A k \in 1..(Len(loc.planckian_table) - 1) :
        loc.planckian_table[k].Ti < loc.planckian_table[k + 1].Ti

\* C12, as stated: called with start < end and a count of 3 or more, after
\* every pass of the cascade the interval [table[index - 1].Ti,
\* table[index + 1].Ti] lies in the interval before it, has start < end and
\* is strictly narrower.
OhnoIntervalShrinksFromThreeSamples ==
    (OhnoPassNarrowed /\ loc.count >= 3) => OhnoIntervalShrank

\* C12, amended: the same for a count of 4 or more, the samples of the
\* table being distinct temperatures.
OhnoIntervalShrinksFromFourSamples ==
    (OhnoPassNarrowed /\ loc.count >= 4 /\ OhnoSamplesDistinct)
        => OhnoIntervalShrank

\* A second pass over four samples has narrowed the interval again.
OhnoSecondPassNarrowedReached ==
    /\ OhnoPassNarrowed
    /\ loc.count = 4
    /\ loc.i = 2
    /\ OhnoSamplesDistinct
    /\ OhnoIntervalShrank
    /\ OhnoPreviousInterval[1] > Arg(invoked[1].kw, "start", CCT_MINIMAL * TScale)

(***************************************************************************)
(* Properties of the solutions of uv_to_CCT_ohno2013.                      *)
(***************************************************************************)
\* uv_to_CCT_ohno2013 has returned a value.
OhnoReturned ==
    /\ pc = "done"
    /\ op = "uv_to_CCT_ohno2013"
    /\ ret.kind = "value"

\* C13: uv_to_CCT_ohno2013 returns the parabolic solution exactly when the
\* absolute value of the triangular Duv is below 0.002; when it is 0.002 or
\* more, whatever its sign, the triangular (T, Duv) is returned unchanged.
OhnoParabolicBelowAbsoluteThreshold ==
    OhnoReturned =>
        LET Duv == loc.triangular[2]
        IN  /\ Abs(Duv) < (2 * UVScale) \div 1000 <=> loc.solution = "parabolic"
            /\ Abs(Duv) >= (2 * UVScale) \div 1000 => ret.value = loc.triangular

(***************************************************************************)
(* Properties of the branches of CCT_to_xy_kang2002.                       *)
(***************************************************************************)
\* CCT_to_xy_kang2002 has returned a pair.
KangReturned ==
    /\ pc = "done"
    /\ op = "CCT_to_xy_kang2002"
    /\ ret.kind = "value"

\* C14, as stated: x comes from the first cubic for CCT in [1667, 4000) and
\* from the second for CCT in [4000, 25000]; y from the first cubic for CCT
\* in [1667, 2222), from the second for [2222, 4000) and from the third for
\* [4000, 25000].
KangHalfOpenRanges ==
    KangReturned =>
        LET CCT == args.pos[1]
        IN  /\ ret.xpoly = (IF CCT < 4000 * TScale THEN 1 ELSE 2)
            /\ ret.ypoly = (IF CCT < 2222 * TScale THEN 1
                            ELSE IF CCT < 4000 * TScale THEN 2 ELSE 3)

\* C14, amended: the ranges are closed and the first that holds CCT is
\* taken: x comes from the first cubic for CCT in [1667, 4000] and from the
\* second for (4000, 25000]; y from the first cubic for [1667, 2222], from
\* the second for (2222, 4000] and from the third for (4000, 25000].
KangClosedRangesFirstMatch ==
    KangReturned =>
        LET CCT == args.pos[1]
        IN  /\ ret.xpoly = (IF CCT <= 4000 * TScale THEN 1 ELSE 2)
            /\ ret.ypoly = (IF CCT <= 2222 * TScale THEN 1
                            ELSE IF CCT <= 4000 * TScale THEN 2 ELSE 3)

\* CCT_to_xy_kang2002(4000) has returned x of the first cubic and y of the
\* second.
KangAtFourThousandReached ==
    /\ KangReturned
    /\ args.pos[1] = 4000 * TScale
    /\ ret.xpoly = 1
    /\ ret.ypoly = 2

(***************************************************************************)
(* Properties of the Robertson scans.                                      *)
(***************************************************************************)
\* uv_to_CCT_robertson1968 is scanning, or is over, for the uv (loc.u, loc.v).
RobertsonForward ==
    /\ op = "uv_to_CCT_robertson1968"
    /\ pc \in {"uv_to_CCT_robertson1968", "done"}

\* The distance of the uv of the running scan to line i.
RobertsonDistance(i) == LineDistance(lines, i, loc.u, loc.v)

\* What holds of a scan at index loc.i: the index is one of 1..30, every
\* line before it was left on a positive distance, and a scan that is over
\* stopped on a distance that is not positive or on line 30, returned (T,
\* Duv), and interpolated with a distance that is not negative.
RobertsonScanPosition ==
    RobertsonForward =>
        /\ loc.i \in 1..30
        /\ \A k \in 1..(loc.i - 1) : RobertsonDistance(k) > 0
        /\ pc = "done" =>
              /\ RobertsonDistance(loc.i) <= 0 \/ loc.i = 30
              /\ ret.kind = "value"
              /\ Len(ret.value) = 2
              /\ loc.dt >= 0
              /\ loc.dt = (IF RobertsonDistance(loc.i) > 0 THEN 0
                           ELSE -RobertsonDistance(loc.i))

\* A step of the scan that does not end it moves to the next index.
RobertsonScanAscends ==
    (pc = "uv_to_CCT_robertson1968" /\ pc' = "uv_to_CCT_robertson1968")
        => loc'.i = loc.i + 1

\* C15: uv_to_CCT_robertson1968 visits the indices 1, 2, ..., 30 in
\* ascending order and stops at the smallest index whose distance is not
\* positive, or at index 30; it is over after at most 30 steps with T and
\* Duv assigned, and the distance it interpolates with is not negative (a
\* positive distance at the end of the table is replaced by 0).
RobertsonScanStopsAtFirstSignChange ==
    []RobertsonScanPosition /\ [][RobertsonScanAscends]_vars

\* A scan that met no sign change has stopped at line 30 and interpolated
\* with the distance 0.
RobertsonTableEndReached ==
    /\ op = "uv_to_CCT_robertson1968"
    /\ pc = "done"
    /\ loc.i = 30
    /\ loc.raw_dt > 0
    /\ loc.dt = 0
    /\ ret.kind = "value"

\* uv_to_CCT_robertson1968 has returned (T, Duv) from the stopping index
\* loc.i.
RobertsonForwardReturned ==
    /\ op = "uv_to_CCT_robertson1968"
    /\ pc = "done"
    /\ ret.kind = "value"

\* T = 1e6 / (f * r_prev + (1 - f) * r_cur) at the stopping index.
RobertsonTemperatureOf(f) ==
    LongDiv(1000000000, Blend(lines[loc.i].r, lines[loc.i + 1].r, f), 3)

\* C16, as stated: at the stopping index f = dt_prev / (dt_prev + dt), with
\* f = 0 at index 1, and T = 1e6 / (f * r_prev + (1 - f) * r_cur).
RobertsonFractionFromPreviousDistance ==
    RobertsonForwardReturned =>
        /\ loc.f = (IF loc.i = 1 THEN 0
                    ELSE TrueDiv(loc.last_dt, loc.last_dt + loc.dt))
        /\ ret.value[1] = RobertsonTemperatureOf(loc.f)

\* C16, amended: at the stopping index f = dt / (dt_prev + dt), where dt is
\* the distance at the stopping line made non-negative and dt_prev the
\* distance at the line before, with f = 0 at index 1 and so f = 0 for a uv
\* on the stopping line; T = 1e6 / (f * r_prev + (1 - f) * r_cur).
RobertsonFractionFromStoppingDistance ==
    RobertsonForwardReturned =>
        /\ loc.f = (IF loc.i = 1 THEN 0
                    ELSE TrueDiv(loc.dt, loc.last_dt + loc.dt))
        /\ loc.dt = 0 => loc.f = 0
        /\ ret.value[1] = RobertsonTemperatureOf(loc.f)

\* A scan has stopped past the first line, nearer to the stopping line
\* than to the line before it, and weighted the line before by less than
\* half.
RobertsonNearStoppingLineReached ==
    /\ RobertsonForwardReturned
    /\ loc.i > 1
    /\ 0 < loc.dt
    /\ loc.dt < loc.last_dt
    /\ 0 < loc.f
    /\ 2 * loc.f < DScale

\* CCT_to_uv_robertson1968 is scanning, or is over, for a CCT that is not 0.
RobertsonInverse ==
    /\ op = "CCT_to_uv_robertson1968"
    /\ pc \in {"CCT_to_uv_robertson1968", "done"}
    /\ args.pos[1] # 0

\* r < r_{i + 1}, r in units of 1/DScale reciprocal megakelvin.
RobertsonBrackets(i) == loc.r < lines[i + 2].r * DScale

\* C17: for every CCT but 0, CCT_to_uv_robertson1968 takes one pair of
\* lines (i, i + 1): the smallest i of 0..29 with r < r_{i + 1}, or i = 29
\* when there is none; it uses f = (r_{i + 1} - r) / (r_{i + 1} - r_i) and
\* returns a uv pair on that step: the scan never runs out of the table.
RobertsonInverseTakesFirstBracket ==
    RobertsonInverse =>
        /\ loc.i \in 0..29
        /\ loc.r = LongDiv(1000000000, args.pos[1], 3)
        /\ \A k \in 0..(loc.i - 1) : ~RobertsonBrackets(k)
        /\ pc = "done" =>
              /\ RobertsonBrackets(loc.i) \/ loc.i = 29
              /\ ret.kind = "value"
              /\ Len(ret.value) = 2
              /\ ret.value[1] \in Int
              /\ ret.value[2] \in Int
              /\ loc.f = LongDiv(lines[loc.i + 2].r * DScale - loc.r,
                                 (lines[loc.i + 2].r - lines[loc.i + 1].r) * DScale,
                                 4)

\* CCT_to_uv_robertson1968(1400, Duv), below the coldest line of the table,
\* has returned a uv from the last pair of lines.
RobertsonInverseLastPairReached ==
    /\ RobertsonInverse
    /\ pc = "done"
    /\ args.pos[1] = 140000
    /\ loc.i = 29
    /\ ~RobertsonBrackets(29)
    /\ ret.kind = "value"

\* The blended reciprocal temperature f * r_prev + (1 - f) * r_cur at the
\* stopping index, in units of 1/DScale reciprocal megakelvin.
RobertsonBlendedReciprocal ==
    Blend(lines[loc.i].r, lines[loc.i + 1].r, loc.f)

\* C18: uv_to_CCT_robertson1968 never divides by zero for f and T: where f
\* is a quotient its denominator last_dt + dt is strictly positive, f is
\* in [0, 1), the line of r = 0 has the weight 0, the blended reciprocal
\* temperature is in [10, 600] and the T returned in [1e6 / 600, 1e6 / 10].
RobertsonFractionBelowOne ==
    (op = "uv_to_CCT_robertson1968" /\ pc = "done") =>
        /\ ret.kind = "value"
        /\ loc.i > 1 => loc.last_dt + loc.dt > 0
        /\ 0 <= loc.f /\ loc.f < DScale
        /\ loc.i = 1 => loc.f = 0
        /\ 10 * DScale <= RobertsonBlendedReciprocal
        /\ RobertsonBlendedReciprocal <= 600 * DScale
        /\ LongDiv(1000000, 600, 2) <= ret.value[1]
        /\ ret.value[1] <= LongDiv(1000000, 10, 2)

\* C18, amended: uv_to_CCT_robertson1968 never divides by zero for f and
\* T: where f is a quotient its denominator last_dt + dt is strictly
\* positive, f is in [0, 1], with f = 1 where the quotient of a last_dt
\* far smaller than dt rounds to 1, the line of r = 0 has the weight 0, the
\* blended reciprocal temperature is in [10, 600] and the T returned in
\* [1e6 / 600, 1e6 / 10].
RobertsonQuotientsAreDefined ==
    (op = "uv_to_CCT_robertson1968" /\ pc = "done") =>
        /\ ret.kind = "value"
        /\ loc.i > 1 => loc.last_dt + loc.dt > 0
        /\ 0 <= loc.f /\ loc.f <= DScale
        /\ loc.i = 1 => loc.f = 0
        /\ 10 * DScale <= RobertsonBlendedReciprocal
        /\ RobertsonBlendedReciprocal <= 600 * DScale
        /\ LongDiv(1000000, 600, 2) <= ret.value[1]
        /\ ret.value[1] <= LongDiv(1000000, 10, 2)

\* A scan has stopped past the first line on a uv so close to the line
\* before that the quotient rounded to 1, and returned the temperature of
\* the line before.
RobertsonQuotientRoundedToOneReached ==
    /\ op = "uv_to_CCT_robertson1968"
    /\ pc = "done"
    /\ loc.i > 1
    /\ loc.last_dt > 0
    /\ loc.f = DScale
    /\ ret.kind = "value"
    /\ ret.value[1] = LongDiv(1000000, lines[loc.i].r, 2)

\* A scan has stopped at the first line, on a uv beyond it, and returned
\* 100000 K: the line of r = 0 was given no weight.
RobertsonFirstLineStopReached ==
    /\ op = "uv_to_CCT_robertson1968"
    /\ pc = "done"
    /\ loc.i = 1
    /\ loc.dt > 0
    /\ loc.f = 0
    /\ ret.kind = "value"
    /\ ret.value[1] = 100000 * TScale

====
